---------------------------- MODULE Spec2Model ----------------------------
(***************************************************************************)
(* vlc-control (src/src/main.rs): a relay that receives short text         *)
(* commands as datagrams or as lines of a stream connection, validates     *)
(* them in process_command, and either runs one of three local actions or  *)
(* forwards the bytes to the VLC backend with a bounded retry.             *)
(*                                                                         *)
(* Commands are byte sequences (Seq(0..255)); text is UTF-8.               *)
(***************************************************************************)
EXTENDS Integers, Sequences, FiniteSets, TLC

(***************************************************************************)
(* Bounds of the model.                                                    *)
(***************************************************************************)
\* stream connections the listener accepts in a run
MaxConns == 2
\* lines the clients of the stream listener send in a run, all together
MaxLines == 2

(***************************************************************************)
(* Program constants.                                                      *)
(***************************************************************************)
MAX_COMMAND_SIZE == 128

max_retries == 3

initial_retry_delay == 100

(***************************************************************************)
(* Byte strings.                                                           *)
(***************************************************************************)
b_play == <<112, 108, 97, 121>>

b_pause == <<112, 97, 117, 115, 101>>

b_stop == <<115, 116, 111, 112>>

b_next == <<110, 101, 120, 116>>

b_prev == <<112, 114, 101, 118>>

b_playlist == <<112, 108, 97, 121, 108, 105, 115, 116>>

b_frame == <<102, 114, 97, 109, 101>>

b_pi_restart_vlc == <<112, 105, 95, 114, 101, 115, 116, 97, 114, 116, 95, 118, 108, 99>>

b_pi_shutdown == <<112, 105, 95, 115, 104, 117, 116, 100, 111, 119, 110>>

b_pi_reboot == <<112, 105, 95, 114, 101, 98, 111, 111, 116>>

\* the reserved prefix "pi_"
b_pi_ == <<112, 105, 95>>

ALLOWED_COMMANDS ==
    { b_play, b_pause, b_stop, b_next, b_prev, b_playlist, b_frame,
      b_pi_restart_vlc, b_pi_shutdown, b_pi_reboot }

(***************************************************************************)
(* std::str::from_utf8: the well-formedness check of UTF-8.  A byte is     *)
(* ASCII, or the lead byte of a complete 2-, 3- or 4-byte sequence (with   *)
(* the ranges that exclude overlong forms, surrogates and code points      *)
(* above U+10FFFF), or a continuation byte of such a sequence.             *)
(***************************************************************************)
IsCont(b) == b >= 128 /\ b <= 191

\* the length of the sequence a lead byte announces (0: not a lead byte)
SeqLen(b) ==
    IF b < 128 THEN 1
    ELSE IF b >= 194 /\ b <= 223 THEN 2
    ELSE IF b >= 224 /\ b <= 239 THEN 3
    ELSE IF b >= 240 /\ b <= 244 THEN 4
    ELSE 0

\* a well-formed sequence starts at byte i
SeqAt(s, i) ==
    LET b == s[i]
        n == SeqLen(b)
    IN  /\ n > 0
        /\ i + n - 1 <= Len(s)
        /\ \A k \in 1..(n - 1) : IsCont(s[i + k])
        /\ (b = 224 => s[i + 1] >= 160)
        /\ (b = 237 => s[i + 1] <= 159)
        /\ (b = 240 => s[i + 1] >= 144)
        /\ (b = 244 => s[i + 1] <= 143)

from_utf8_ok(data) ==
    \A i \in 1..Len(data) :
        IF IsCont(data[i])
        THEN \E k \in 1..3 : /\ i - k >= 1
                             /\ SeqLen(data[i - k]) > k
                             /\ SeqAt(data, i - k)
        ELSE SeqAt(data, i)

(***************************************************************************)
(* str::trim: strips the leading and trailing characters that have the     *)
(* Unicode White_Space property.  It is applied to decoded text only.      *)
(* IsWsByte(s, i): byte i belongs to the encoding of such a character.     *)
(***************************************************************************)
IsWs1(a) == (a >= 9 /\ a <= 13) \/ a = 32

IsWs2(a, b) == a = 194 /\ (b = 133 \/ b = 160)

IsWs3(a, b, c) ==
    \/ a = 225 /\ b = 154 /\ c = 128
    \/ a = 226 /\ b = 128 /\ ((c >= 128 /\ c <= 138) \/ c = 168 \/ c = 169 \/ c = 175)
    \/ a = 226 /\ b = 129 /\ c = 159
    \/ a = 227 /\ b = 128 /\ c = 128

\* a white-space character starts at byte i
WsAt(s, i) ==
    \/ IsWs1(s[i])
    \/ i + 1 <= Len(s) /\ IsWs2(s[i], s[i + 1])
    \/ i + 2 <= Len(s) /\ IsWs3(s[i], s[i + 1], s[i + 2])

IsWsByte(s, i) ==
    \E k \in 0..2 : /\ i - k >= 1
                    /\ WsAt(s, i - k)
                    /\ SeqLen(s[i - k]) > k

trim(s) ==
    LET lo == CHOOSE i \in 1..(Len(s) + 1) :
                  /\ \A k \in 1..(i - 1) : IsWsByte(s, k)
                  /\ (i <= Len(s) => ~IsWsByte(s, i))
        hi == CHOOSE j \in (lo - 1)..Len(s) :
                  /\ \A k \in (j + 1)..Len(s) : IsWsByte(s, k)
                  /\ (j >= lo => ~IsWsByte(s, j))
    IN  SubSeq(s, lo, hi)

starts_with(s, p) == Len(s) >= Len(p) /\ SubSeq(s, 1, Len(p)) = p


(***************************************************************************)
(* process_command, the synchronous part: size check, decoding, the        *)
(* allow-list check and the match on the trimmed text.                     *)
(***************************************************************************)
\* variant: the limit applied to the trimmed text
TooLargeTrimmed(data) == Len(trim(data)) > MAX_COMMAND_SIZE

\* variant: `>=` for `>`
TooLargeInclusive(data) == Len(data) >= MAX_COMMAND_SIZE

TooLarge(data) == Len(data) > MAX_COMMAND_SIZE

\* variant: the allow-list matched as a prefix of the command
IsUnauthorizedPrefix(command) ==
    /\ starts_with(command, b_pi_)
    /\ ~\E a \in ALLOWED_COMMANDS : starts_with(command, a)

IsUnauthorized(command) ==
    starts_with(command, b_pi_) /\ command \notin ALLOWED_COMMANDS

\* variant: no arm for "pi_reboot"
MatchArmNoReboot(command) ==
    IF command = b_pi_restart_vlc THEN "pi_restart_vlc"
    ELSE IF command = b_pi_shutdown THEN "pi_shutdown"
    ELSE "forward"

\* the arm of `match command` that is taken
MatchArm(command) ==
    IF command = b_pi_restart_vlc THEN "pi_restart_vlc"
    ELSE IF command = b_pi_shutdown THEN "pi_shutdown"
    ELSE IF command = b_pi_reboot THEN "pi_reboot"
    ELSE "forward"

\* variant: the trimmed command is forwarded
ForwardBytesTrimmed(data) == trim(data)

\* the bytes handed to forward_to_vlc_with_retry, and by it to write_all
ForwardBytes(data) == data

\* where process_command takes the bytes: the error of a rejection, the
\* name of a local action, or "forward"
Route(data) ==
    IF TooLarge(data) THEN "SizeExceeded"
    ELSE IF ~from_utf8_ok(data) THEN "InvalidEncoding"
    ELSE IF IsUnauthorized(trim(data)) THEN "Unauthorized"
    ELSE MatchArm(trim(data))

Rejections == {"SizeExceeded", "InvalidEncoding", "Unauthorized"}

LocalActions == {"pi_restart_vlc", "pi_shutdown", "pi_reboot"}

(***************************************************************************)
(* forward_to_vlc_with_retry: the retry policy.                            *)
(***************************************************************************)
\* variant: one retry too many
MayRetryInclusive(attempt) == attempt <= max_retries

\* `Err(e) if attempt < max_retries`
MayRetry(attempt) == attempt < max_retries

\* variant: a constant delay
NextDelayConstant(retry_delay) == retry_delay

\* `retry_delay *= 2`
NextDelay(retry_delay) == retry_delay * 2

(***************************************************************************)
(* State.                                                                  *)
(*   proc    the process: "running" or "exited" (main has returned)        *)
(*   tcpSrv  run_tcp_server: "bind", "accept", "bind_failed",              *)
(*           "accept_failed"                                               *)
(*   udpSrv  run_udp_server: "bind", "recv", "dispatch", "bind_failed",    *)
(*           "recv_failed", "command_failed"                               *)
(*   conn    handle_tcp_connection, per stream connection: "none" (not    *)
(*           accepted), "read" (in read_line), "dispatch" (in              *)
(*           process_command), "closed" (returned Ok), "read_failed",      *)
(*           "decode_failed" or "command_failed" (returned Err)            *)
(*   sent    per stream connection: the lines read_line has returned       *)
(*   wire    per stream connection: the lines the client has written       *)
(*   disp    per task (0 is the main task, which runs the datagram loop;   *)
(*           c >= 1 is the task spawned for connection c): the call of      *)
(*           process_command in progress, or the last one finished         *)
(***************************************************************************)
VARIABLES proc, tcpSrv, udpSrv, conn, sent, wire, disp

vars == <<proc, tcpSrv, udpSrv, conn, sent, wire, disp>>

Conns == 1..MaxConns

Tasks == 0..MaxConns

\* one backend connection (TcpStream) of one attempt
NoCx == [prompt |-> FALSE, wrote |-> FALSE, reply |-> FALSE]

(* A call of process_command.  pc: "idle" (not in a call), "status" (blocked
   in Command::status), "connect", "prompt", "write", "response" (the awaits
   of forward_to_vlc), "sleep" (the backoff sleep).  The other fields record
   what the call has done: status_calls counts Command::status calls (each
   starts an external process, or fails to), exit is the outcome of the
   external operation, connects counts TcpStream::connect calls, opened
   those that returned a connection, sleeps
   lists the delays slept, outcomes the result of each forward_to_vlc call,
   writes the buffers passed to write_all, cx the connection of the current
   (or last) attempt. *)
NewDisp(data) ==
    [ pc |-> "idle", data |-> data, route |-> "none", result |-> "none",
      status_calls |-> 0, exit |-> "none",
      attempt |-> 0, retry_delay |-> 0, connects |-> 0, opened |-> 0,
      sleeps |-> <<>>, outcomes |-> <<>>, writes |-> <<>>, cx |-> NoCx ]

Init ==
    /\ proc = "running"
    /\ tcpSrv = "bind"
    /\ udpSrv = "bind"
    /\ conn = [c \in Conns |-> "none"]
    /\ sent = [c \in Conns |-> <<>>]
    /\ wire = [c \in Conns |-> <<>>]
    /\ disp = [t \in Tasks |-> NewDisp(<<>>)]


(***************************************************************************)
(* The caller's side of process_command.  Settle(t, d) stores the call d   *)
(* of task t.  While the call is in progress the caller waits in           *)
(* `process_command(..).await`.  When it has returned (pc = "idle"), the   *)
(* `?` of the caller decides: Ok continues the loop; Err makes             *)
(* handle_tcp_connection return Err (the spawned task logs it and ends),    *)
(* or makes run_udp_server return Err, which completes the select! of      *)
(* main, so main returns and the process exits with every task.            *)
(***************************************************************************)
\* variant: an Err of a connection's handler is propagated by the accept loop
SettleFatal(t, d) ==
    /\ disp' = [disp EXCEPT ![t] = d]
    /\ IF t = 0
       THEN /\ udpSrv' = IF d.pc # "idle" THEN "dispatch"
                         ELSE IF d.result = "Ok" THEN "recv"
                         ELSE "command_failed"
            /\ proc' = IF d.pc = "idle" /\ d.result # "Ok" THEN "exited" ELSE proc
            /\ UNCHANGED <<conn, tcpSrv>>
       ELSE /\ conn' = [conn EXCEPT ![t] =
                            IF d.pc # "idle" THEN "dispatch"
                            ELSE IF d.result = "Ok" THEN "read"
                            ELSE "command_failed"]
            /\ tcpSrv' = IF d.pc = "idle" /\ d.result # "Ok"
                         THEN "accept_failed" ELSE tcpSrv
            /\ proc' = IF d.pc = "idle" /\ d.result # "Ok" THEN "exited" ELSE proc
            /\ UNCHANGED udpSrv

Settle(t, d) ==
    /\ disp' = [disp EXCEPT ![t] = d]
    /\ UNCHANGED tcpSrv
    /\ IF t = 0
       THEN /\ udpSrv' = IF d.pc # "idle" THEN "dispatch"
                         ELSE IF d.result = "Ok" THEN "recv"
                         ELSE "command_failed"
            /\ proc' = IF d.pc = "idle" /\ d.result # "Ok" THEN "exited" ELSE proc
            /\ UNCHANGED conn
       ELSE /\ conn' = [conn EXCEPT ![t] =
                            IF d.pc # "idle" THEN "dispatch"
                            ELSE IF d.result = "Ok" THEN "read"
                            ELSE "command_failed"]
            /\ UNCHANGED <<proc, udpSrv>>

(***************************************************************************)
(* process_command up to its first blocking call or await.                 *)
(***************************************************************************)
Begin(data) ==
    LET r == Route(data)
        d == [NewDisp(data) EXCEPT !.route = r]
    IN  IF r \in Rejections
          THEN [d EXCEPT !.result = r]
        ELSE IF r \in LocalActions
          THEN [d EXCEPT !.pc = "status", !.status_calls = 1]
        ELSE [d EXCEPT !.pc = "connect", !.attempt = 1,
                       !.retry_delay = initial_retry_delay]

\* variant: the retry arm has no `attempt < max_retries` guard
FailedNoGiveUp(d) ==
    [d EXCEPT !.outcomes = Append(@, "fail"), !.pc = "sleep",
              !.sleeps = Append(@, d.retry_delay)]

\* forward_to_vlc returned Err on the current attempt
Failed(d) ==
    LET d1 == [d EXCEPT !.outcomes = Append(@, "fail")]
    IN  IF MayRetry(d.attempt)
          THEN [d1 EXCEPT !.pc = "sleep", !.sleeps = Append(@, d.retry_delay)]
          ELSE [d1 EXCEPT !.pc = "idle", !.result = "BackendUnreachable"]

\* variant: the Ok arm of the retry loop does not return, the loop goes on
\* as it does after an Err
SucceededNoReturn(d) ==
    LET d1 == [d EXCEPT !.outcomes = Append(@, "ok")]
    IN  IF MayRetry(d.attempt)
          THEN [d1 EXCEPT !.pc = "sleep", !.sleeps = Append(@, d.retry_delay)]
          ELSE [d1 EXCEPT !.pc = "idle", !.result = "Ok"]

\* forward_to_vlc returned Ok on the current attempt
Succeeded(d) ==
    [d EXCEPT !.outcomes = Append(@, "ok"), !.pc = "idle", !.result = "Ok"]

(***************************************************************************)
(* Command::status of a local action returns o: the operation exited with  *)
(* status "zero" or "nonzero" (both only logged), or it could not be       *)
(* started ("nostart") and `.status()?` returns the error from             *)
(* process_command.                                                        *)
(***************************************************************************)
StatusReturns(t, o) ==
    /\ proc = "running"
    /\ UNCHANGED <<sent, wire>>
    /\ disp[t].pc = "status"
    /\ Settle(t, [disp[t] EXCEPT !.pc = "idle", !.exit = o,
                       !.result = IF o = "nostart" THEN "LocalActionFailed"
                                  ELSE "Ok"])

(***************************************************************************)
(* forward_to_vlc, one action per await; ok and ev are what the backend    *)
(* does at that await.                                                     *)
(***************************************************************************)
\* TcpStream::connect(vlc_addr).await?  The stream is a local of this call
\* of forward_to_vlc: the previous one was dropped when it returned.
Connect(t, ok) ==
    /\ proc = "running"
    /\ UNCHANGED <<sent, wire>>
    /\ disp[t].pc = "connect"
    /\ LET d == [disp[t] EXCEPT !.connects = @ + 1, !.cx = NoCx]
       IN  Settle(t, IF ok THEN [d EXCEPT !.pc = "prompt", !.opened = @ + 1]
                           ELSE Failed(d))

\* reader.read_until(b'>', ..).await?  returns Ok at the delimiter ("delim")
\* and also at end-of-stream ("eof"), Err on a read error ("err"); it does
\* not return while the backend sends neither (no step)
ReadPrompt(t, ev) ==
    /\ proc = "running"
    /\ UNCHANGED <<sent, wire>>
    /\ disp[t].pc = "prompt"
    /\ Settle(t, IF ev = "err" THEN Failed(disp[t])
                  ELSE [disp[t] EXCEPT !.pc = "write",
                                       !.cx.prompt = (ev = "delim")])

\* variant: forward_to_vlc returns Ok right after write_all, without the
\* second read_until
WriteNoReply(t, ok) ==
    /\ proc = "running"
    /\ UNCHANGED <<sent, wire>>
    /\ disp[t].pc = "write"
    /\ LET d == [disp[t] EXCEPT
                    !.writes = Append(@, [attempt |-> disp[t].attempt,
                                          bytes |-> ForwardBytes(disp[t].data)]),
                    !.cx.wrote = TRUE]
       IN  Settle(t, IF ok THEN Succeeded(d) ELSE Failed(d))

\* variant: a retry does not write a command that an earlier attempt of the
\* dispatch has already written
WriteOnce(t, ok) ==
    /\ proc = "running"
    /\ UNCHANGED <<sent, wire>>
    /\ disp[t].pc = "write"
    /\ LET d == IF disp[t].writes # <<>> THEN disp[t]
                ELSE [disp[t] EXCEPT
                        !.writes = Append(@, [attempt |-> disp[t].attempt,
                                              bytes |-> ForwardBytes(disp[t].data)]),
                        !.cx.wrote = TRUE]
       IN  Settle(t, IF ok THEN [d EXCEPT !.pc = "response"] ELSE Failed(d))

\* reader.get_mut().write_all(command).await?
Write(t, ok) ==
    /\ proc = "running"
    /\ UNCHANGED <<sent, wire>>
    /\ disp[t].pc = "write"
    /\ LET d == [disp[t] EXCEPT
                    !.writes = Append(@, [attempt |-> disp[t].attempt,
                                          bytes |-> ForwardBytes(disp[t].data)]),
                    !.cx.wrote = TRUE]
       IN  Settle(t, IF ok THEN [d EXCEPT !.pc = "response"] ELSE Failed(d))

\* the second reader.read_until(b'>', ..).await?, then Ok(())
ReadResponse(t, ev) ==
    /\ proc = "running"
    /\ UNCHANGED <<sent, wire>>
    /\ disp[t].pc = "response"
    /\ Settle(t, IF ev = "err" THEN Failed(disp[t])
                  ELSE Succeeded([disp[t] EXCEPT !.cx.reply = (ev = "delim")]))

\* variant: the retry keeps the stream of the failed attempt and goes
\* straight to write_all
WakeReuse(t) ==
    /\ proc = "running"
    /\ UNCHANGED <<sent, wire>>
    /\ disp[t].pc = "sleep"
    /\ Settle(t, [disp[t] EXCEPT !.pc = "write", !.attempt = @ + 1,
                                 !.retry_delay = NextDelay(@)])

\* tokio::time::sleep(retry_delay) is over; retry_delay *= 2; next attempt
Wake(t) ==
    /\ proc = "running"
    /\ UNCHANGED <<sent, wire>>
    /\ disp[t].pc = "sleep"
    /\ Settle(t, [disp[t] EXCEPT !.pc = "connect", !.attempt = @ + 1,
                                 !.retry_delay = NextDelay(@)])


(***************************************************************************)
(* main: select! polls run_tcp_server and run_udp_server in the one main   *)
(* task, so neither listener is polled while that task is blocked in       *)
(* Command::status; when either returns (always an Err), main returns.     *)
(***************************************************************************)
MainRuns == proc = "running" /\ disp[0].pc # "status"

\* TcpListener::bind(tcp_addr).await?
TcpBind ==
    /\ MainRuns
    /\ tcpSrv = "bind"
    /\ \E ok \in BOOLEAN :
         /\ tcpSrv' = IF ok THEN "accept" ELSE "bind_failed"
         /\ proc' = IF ok THEN proc ELSE "exited"
    /\ UNCHANGED <<udpSrv, conn, sent, wire, disp>>

\* UdpSocket::bind(udp_addr).await?
UdpBind ==
    /\ MainRuns
    /\ udpSrv = "bind"
    /\ \E ok \in BOOLEAN :
         /\ udpSrv' = IF ok THEN "recv" ELSE "bind_failed"
         /\ proc' = IF ok THEN proc ELSE "exited"
    /\ UNCHANGED <<tcpSrv, conn, sent, wire, disp>>

\* listener.accept().await? returns a socket; tokio::spawn of its handler,
\* which starts in read_line.  Connections are numbered in accept order.
TcpAccept(c) ==
    /\ MainRuns
    /\ tcpSrv = "accept"
    /\ conn[c] = "none"
    /\ \A b \in Conns : b < c => conn[b] # "none"
    /\ conn' = [conn EXCEPT ![c] = "read"]
    /\ UNCHANGED <<proc, tcpSrv, udpSrv, sent, wire, disp>>

\* listener.accept().await? returns Err
TcpAcceptError ==
    /\ MainRuns
    /\ tcpSrv = "accept"
    /\ tcpSrv' = "accept_failed"
    /\ proc' = "exited"
    /\ UNCHANGED <<udpSrv, conn, sent, wire, disp>>

(***************************************************************************)
(* The client of a stream connection writes a line (terminator included).  *)
(* It may do so whenever the connection is established and it has not      *)
(* closed its end, whatever the handler is doing.  LinesSent counts the     *)
(* lines written by all clients so far; a run has at most MaxLines of them. *)
(***************************************************************************)
LinesSent == Cardinality({ p \in Conns \X (1..MaxLines) : p[2] <= Len(wire[p[1]]) })

ClientSend(c, line) ==
    /\ proc = "running"
    /\ conn[c] \notin {"none", "closed"}
    /\ LinesSent < MaxLines
    /\ wire' = [wire EXCEPT ![c] = Append(@, line)]
    /\ UNCHANGED <<proc, tcpSrv, udpSrv, conn, sent, disp>>

\* the next line of connection c that read_line has not consumed
NextLine(c) == wire[c][Len(sent[c]) + 1]

(***************************************************************************)
(* handle_tcp_connection.  read_line appends to a String, so a line that   *)
(* is not valid UTF-8 makes read_line itself return Err (InvalidData) and  *)
(* the `?` returns it; a valid line is passed whole, terminator included,  *)
(* to process_command.                                                     *)
(***************************************************************************)
TcpReadLine(c) ==
    /\ proc = "running"
    /\ conn[c] = "read"
    /\ Len(sent[c]) < Len(wire[c])
    /\ UNCHANGED wire
    /\ IF from_utf8_ok(NextLine(c))
       THEN /\ Settle(c, Begin(NextLine(c)))
            /\ sent' = [sent EXCEPT ![c] = Append(@, NextLine(c))]
       ELSE /\ conn' = [conn EXCEPT ![c] = "decode_failed"]
            /\ UNCHANGED <<proc, tcpSrv, udpSrv, sent, disp>>

\* read_line returns 0: the client closed the connection after its last line
TcpEof(c) ==
    /\ proc = "running"
    /\ conn[c] = "read"
    /\ Len(sent[c]) = Len(wire[c])
    /\ conn' = [conn EXCEPT ![c] = "closed"]
    /\ UNCHANGED <<proc, tcpSrv, udpSrv, sent, wire, disp>>

\* read_line returns an I/O error
TcpReadError(c) ==
    /\ proc = "running"
    /\ conn[c] = "read"
    /\ conn' = [conn EXCEPT ![c] = "read_failed"]
    /\ UNCHANGED <<proc, tcpSrv, udpSrv, sent, wire, disp>>

(***************************************************************************)
(* run_udp_server: one datagram, dispatched in the loop itself.            *)
(***************************************************************************)
UdpRecv(dg) ==
    /\ proc = "running"
    /\ udpSrv = "recv"
    /\ Settle(0, Begin(dg))
    /\ UNCHANGED <<sent, wire>>

\* socket.recv_from(..).await? returns Err
UdpRecvError ==
    /\ proc = "running"
    /\ udpSrv = "recv"
    /\ udpSrv' = "recv_failed"
    /\ proc' = "exited"
    /\ UNCHANGED <<tcpSrv, conn, sent, wire, disp>>

(***************************************************************************)
(* Inputs.                                                                 *)
(***************************************************************************)
PadTo(s, n) == s \o [i \in 1..(n - Len(s)) |-> 32]

b_foo == <<102, 111, 111>>

b_pi_format_disk == <<112, 105, 95, 102, 111, 114, 109, 97, 116, 95, 100, 105, 115, 107>>

\* "pi_shutdown now"
b_pi_shutdown_now == b_pi_shutdown \o <<32, 110, 111, 119>>

\* not UTF-8
b_bad == <<255>>

Datagrams ==
    { b_play,
      <<32>> \o b_play \o <<32, 10>>,
      b_foo,
      <<>>,
      PadTo(b_play, MAX_COMMAND_SIZE),
      PadTo(b_play, MAX_COMMAND_SIZE + 1),
      b_pi_restart_vlc,
      b_pi_shutdown \o <<10>>,
      b_pi_reboot \o <<194, 160>>,
      PadTo(b_pi_reboot, MAX_COMMAND_SIZE + 1),
      b_pi_format_disk,
      b_pi_shutdown_now,
      <<9>> \o b_pi_format_disk \o <<13, 10>>,
      PadTo(b_pi_format_disk, MAX_COMMAND_SIZE),
      PadTo(b_pi_format_disk, MAX_COMMAND_SIZE + 1),
      b_bad,
      b_pi_ \o b_bad,
      PadTo(b_bad, MAX_COMMAND_SIZE + 1) }

\* the inputs of the runs with several tasks
FewDatagrams == { b_play, b_pi_format_disk, b_pi_reboot }

FewLines ==
    { b_play \o <<10>>, b_pi_format_disk \o <<10>>, b_pi_reboot \o <<10>> }

\* n letters `a`: text that trim leaves as it is
Fill(n) == [i \in 1..n |-> 97]

\* datagrams at the size limit: 128 and 129 bytes of padded command, of plain
\* text, of bytes that are not UTF-8, and of an unlisted pi_ command
BoundaryDatagrams ==
    { PadTo(b_play, MAX_COMMAND_SIZE),
      PadTo(b_play, MAX_COMMAND_SIZE + 1),
      Fill(MAX_COMMAND_SIZE),
      Fill(MAX_COMMAND_SIZE + 1),
      PadTo(b_bad, MAX_COMMAND_SIZE),
      PadTo(b_bad, MAX_COMMAND_SIZE + 1),
      PadTo(b_pi_format_disk, MAX_COMMAND_SIZE),
      PadTo(b_pi_format_disk, MAX_COMMAND_SIZE + 1) }

\* lines at the size limit; the terminator is part of the line read_line
\* returns, so a line of n bytes of text is n + 1 raw bytes
BoundaryLines ==
    { PadTo(b_play, MAX_COMMAND_SIZE - 1) \o <<10>>,
      PadTo(b_play, MAX_COMMAND_SIZE) \o <<10>>,
      Fill(MAX_COMMAND_SIZE - 1) \o <<10>>,
      Fill(MAX_COMMAND_SIZE) \o <<10>>,
      PadTo(b_bad, MAX_COMMAND_SIZE - 1) \o <<10>>,
      PadTo(b_bad, MAX_COMMAND_SIZE) \o <<10>>,
      PadTo(b_pi_format_disk, MAX_COMMAND_SIZE - 1) \o <<10>>,
      PadTo(b_pi_format_disk, MAX_COMMAND_SIZE) \o <<10>> }

(***************************************************************************)
(* Specifications.                                                         *)
(***************************************************************************)
StatusOutcomes == {"zero", "nonzero", "nostart"}

ReadEvents == {"delim", "eof", "err"}

\* the server with datagram senders only (no stream client connects):
\* every input of Datagrams, every behaviour of the backend
NextDatagram ==
    \/ TcpBind
    \/ UdpBind
    \/ \E dg \in Datagrams : UdpRecv(dg)
    \/ UdpRecvError
    \/ \E o \in StatusOutcomes : StatusReturns(0, o)
    \/ \E ok \in BOOLEAN : Connect(0, ok)
    \/ \E ev \in ReadEvents : ReadPrompt(0, ev)
    \/ \E ok \in BOOLEAN : Write(0, ok)
    \/ \E ev \in ReadEvents : ReadResponse(0, ev)
    \/ Wake(0)

SpecDatagram == Init /\ [][NextDatagram]_vars

\* The awaits of the forwarding path that complete whatever the backend
\* sends: connect (the backend's host accepts or refuses, or the operating
\* system gives up), write_all of the short command, and the backoff sleep.
\* The two read_until calls are not among them: they return only when the
\* backend sends the delimiter, closes, or the read fails.
ForwardCompletes ==
    \/ \E ok \in BOOLEAN : Connect(0, ok)
    \/ \E ok \in BOOLEAN : Write(0, ok)
    \/ Wake(0)

SpecDatagramFair == SpecDatagram /\ WF_vars(ForwardCompletes)

\* the whole server, with stream clients and datagram senders, a few
\* inputs and a backend that completes every exchange
Next ==
    \/ TcpBind
    \/ UdpBind
    \/ \E c \in Conns : TcpAccept(c)
    \/ TcpAcceptError
    \/ \E c \in Conns, line \in FewLines : ClientSend(c, line)
    \/ \E c \in Conns : TcpReadLine(c)
    \/ \E c \in Conns : TcpEof(c)
    \/ \E c \in Conns : TcpReadError(c)
    \/ \E dg \in FewDatagrams : UdpRecv(dg)
    \/ UdpRecvError
    \/ \E t \in Tasks, o \in StatusOutcomes : StatusReturns(t, o)
    \/ \E t \in Tasks : Connect(t, TRUE)
    \/ \E t \in Tasks : ReadPrompt(t, "delim")
    \/ \E t \in Tasks : Write(t, TRUE)
    \/ \E t \in Tasks : ReadResponse(t, "delim")

Spec == Init /\ [][Next]_vars

\* the server with stream clients only (no datagram arrives): a pass-through
\* line, a rejected line, a local action and a line that is not UTF-8, and a
\* backend that completes every exchange
StreamLines ==
    { b_play \o <<10>>, b_pi_format_disk \o <<10>>, b_pi_reboot \o <<10>>,
      b_bad \o <<10>> }

NextStream ==
    \/ TcpBind
    \/ UdpBind
    \/ \E c \in Conns : TcpAccept(c)
    \/ TcpAcceptError
    \/ \E c \in Conns, line \in StreamLines : ClientSend(c, line)
    \/ \E c \in Conns : TcpReadLine(c)
    \/ \E c \in Conns : TcpEof(c)
    \/ \E c \in Conns : TcpReadError(c)
    \/ \E c \in Conns, o \in StatusOutcomes : StatusReturns(c, o)
    \/ \E c \in Conns : Connect(c, TRUE)
    \/ \E c \in Conns : ReadPrompt(c, "delim")
    \/ \E c \in Conns : Write(c, TRUE)
    \/ \E c \in Conns : ReadResponse(c, "delim")

SpecStream == Init /\ [][NextStream]_vars

\* the datagram listener and one stream connection, with inputs at the size
\* limit and a backend that completes every exchange
NextBoundary ==
    \/ TcpBind
    \/ UdpBind
    \/ TcpAccept(1)
    \/ \E line \in BoundaryLines : ClientSend(1, line)
    \/ TcpReadLine(1)
    \/ TcpEof(1)
    \/ \E dg \in BoundaryDatagrams : UdpRecv(dg)
    \/ \E t \in 0..1 : Connect(t, TRUE)
    \/ \E t \in 0..1 : ReadPrompt(t, "delim")
    \/ \E t \in 0..1 : Write(t, TRUE)
    \/ \E t \in 0..1 : ReadResponse(t, "delim")

SpecBoundary == Init /\ [][NextBoundary]_vars


(***************************************************************************)
(* Properties.                                                             *)
(***************************************************************************)
\* task t has called process_command (the call may still be in progress)
Called(t) == disp[t].route # "none"

\* the last call of process_command by task t has returned
Returned(t) == Called(t) /\ disp[t].pc = "idle"

\* the raw bytes decode to text whose trimmed form starts with "pi_" and is
\* not in the allow-list
PiUnlisted(data) ==
    /\ from_utf8_ok(data)
    /\ starts_with(trim(data), b_pi_)
    /\ trim(data) \notin ALLOWED_COMMANDS

\* the raw bytes decode to text whose trimmed form is one of the three
\* allow-listed privileged names
PrivilegedName(data) ==
    /\ from_utf8_ok(data)
    /\ trim(data) \in {b_pi_restart_vlc, b_pi_shutdown, b_pi_reboot}

\* C1 (as stated): every command whose trimmed text begins with "pi_" and is
\* not in the allow-list is rejected with Unauthorized, with no external
\* process started and no backend connection opened.
C1_AsStated ==
    \A t \in Tasks :
        (Called(t) /\ PiUnlisted(disp[t].data)) =>
            /\ Returned(t)
            /\ disp[t].result = "Unauthorized"
            /\ disp[t].status_calls = 0
            /\ disp[t].connects = 0

\* C1 (amended): such a command is rejected with Unauthorized when it is at
\* most 128 raw bytes long and with SizeExceeded when it is longer; in both
\* cases no external process is started and no backend connection is opened.
C1_UnlistedPiRejected ==
    \A t \in Tasks :
        (Called(t) /\ PiUnlisted(disp[t].data)) =>
            /\ Returned(t)
            /\ disp[t].result = IF Len(disp[t].data) <= 128
                                THEN "Unauthorized" ELSE "SizeExceeded"
            /\ disp[t].status_calls = 0
            /\ disp[t].connects = 0

\* "pi_shutdown now" has been rejected with Unauthorized
C1_Witness ==
    \E t \in Tasks :
        /\ Returned(t)
        /\ disp[t].data = b_pi_shutdown_now
        /\ disp[t].result = "Unauthorized"

\* C2: a command of more than 128 raw bytes is rejected with SizeExceeded and
\* its dispatch opens no backend connection and invokes no local action,
\* whatever the bytes are.
C2_OversizedRejected ==
    \A t \in Tasks :
        (Called(t) /\ Len(disp[t].data) > 128) =>
            /\ Returned(t)
            /\ disp[t].result = "SizeExceeded"
            /\ disp[t].status_calls = 0
            /\ disp[t].connects = 0

\* "pi_reboot" padded with spaces to 129 bytes has been rejected
C2_Witness ==
    \E t \in Tasks :
        /\ Returned(t)
        /\ Len(disp[t].data) = 129
        /\ trim(disp[t].data) = b_pi_reboot
        /\ disp[t].result = "SizeExceeded"

\* C3: no dispatch both runs a local action and contacts the backend; a
\* rejected command does neither; a command that is not rejected runs the
\* local action (once, no backend connection) exactly when its trimmed text
\* is one of the three privileged names, and otherwise goes to the backend
\* (1 to 3 connection attempts, no local action).
C3_ExactlyOnePath ==
    \A t \in Tasks :
        /\ ~(disp[t].status_calls > 0 /\ disp[t].connects > 0)
        /\ Returned(t) =>
             IF disp[t].result \in Rejections
             THEN disp[t].status_calls = 0 /\ disp[t].connects = 0
             ELSE IF PrivilegedName(disp[t].data)
             THEN disp[t].status_calls = 1 /\ disp[t].connects = 0
             ELSE disp[t].status_calls = 0 /\ disp[t].connects \in 1..3

\* "pi_reboot" followed by a no-break space has run the local action
C3_Witness ==
    \E t \in Tasks :
        /\ Returned(t)
        /\ disp[t].data = b_pi_reboot \o <<194, 160>>
        /\ disp[t].status_calls = 1
        /\ disp[t].connects = 0

\* C4: a valid-text command of at most 128 bytes whose trimmed text does not
\* begin with "pi_" goes to the backend forwarder, in the allow-list or not,
\* and every write to the backend passes exactly the bytes received.
C4_ForwardedVerbatim ==
    \A t \in Tasks :
        ( /\ Called(t)
          /\ Len(disp[t].data) <= 128
          /\ from_utf8_ok(disp[t].data)
          /\ ~starts_with(trim(disp[t].data), b_pi_) ) =>
            /\ disp[t].status_calls = 0
            /\ disp[t].result \in {"none", "Ok", "BackendUnreachable"}
            /\ disp[t].connects >= (IF Returned(t) THEN 1 ELSE 0)
            /\ disp[t].pc \in {"idle", "connect", "prompt", "write", "response", "sleep"}
            /\ \A i \in 1..Len(disp[t].writes) :
                   disp[t].writes[i].bytes = disp[t].data

\* " play \n" has been written to the backend on a retry, untrimmed
C4_Witness ==
    \E t \in Tasks :
        /\ Returned(t)
        /\ disp[t].data = <<32>> \o b_play \o <<32, 10>>
        /\ disp[t].result = "Ok"
        /\ Len(disp[t].writes) = 2
        /\ disp[t].writes[2].bytes = <<32, 112, 108, 97, 121, 32, 10>>

\* C5: when all 3 exchange attempts have failed, forward_to_vlc_with_retry
\* has returned BackendUnreachable: 3 connection attempts, no 4th, and the
\* two sleeps after attempts 1 and 2 only (none after the last failure).
C5_RetryExhaustion ==
    \A t \in Tasks :
        /\ Len(disp[t].outcomes) <= 3
        /\ disp[t].connects <= 3
        /\ disp[t].outcomes = <<"fail", "fail", "fail">> =>
             /\ Returned(t)
             /\ disp[t].result = "BackendUnreachable"
             /\ disp[t].connects = 3
             /\ Len(disp[t].sleeps) = 2

\* a dispatch has failed three times (the last time after its write)
C5_Witness ==
    \E t \in Tasks :
        /\ disp[t].outcomes = <<"fail", "fail", "fail">>
        /\ disp[t].result = "BackendUnreachable"
        /\ disp[t].cx.wrote

\* C6: the delay slept after failed attempt 1 is 100 ms and after failed
\* attempt 2 is 200 ms, attempt k+1 connects only after sleep k, and when
\* attempt 3 then succeeds the call returns Ok after exactly 3 connection
\* attempts and one successful exchange.
C6_RetryTiming ==
    \A t \in Tasks :
        /\ disp[t].connects <= Len(disp[t].sleeps) + 1
        /\ (Len(disp[t].outcomes) >= 1 /\ disp[t].outcomes[1] = "fail") =>
               (Len(disp[t].sleeps) >= 1 /\ disp[t].sleeps[1] = 100)
        /\ (Len(disp[t].outcomes) >= 2 /\ disp[t].outcomes[2] = "fail") =>
               disp[t].sleeps = <<100, 200>>
        /\ disp[t].outcomes = <<"fail", "fail", "ok">> =>
             /\ Returned(t)
             /\ disp[t].result = "Ok"
             /\ disp[t].connects = 3
             /\ disp[t].sleeps = <<100, 200>>
             /\ Cardinality({i \in 1..3 : disp[t].outcomes[i] = "ok"}) = 1

\* a dispatch has succeeded on its third attempt
C6_Witness ==
    \E t \in Tasks :
        /\ disp[t].outcomes = <<"fail", "fail", "ok">>
        /\ disp[t].result = "Ok"

\* C7 (as stated): on every backend connection the command is written only
\* after a '>' was received on it, and the exchange is reported successful
\* only after a further '>' was received after the write.
C7_PromptBeforeWrite ==
    \A t \in Tasks :
        /\ disp[t].cx.wrote => disp[t].cx.prompt
        /\ ( /\ Len(disp[t].outcomes) = disp[t].connects
             /\ disp[t].connects > 0
             /\ disp[t].outcomes[disp[t].connects] = "ok" ) => disp[t].cx.reply

\* C8 (as stated): a command-level error never stops a listener or the
\* process: run_udp_server does not return because of one, and the process
\* exits only when a listener itself failed.
C8_ErrorsIsolated ==
    /\ udpSrv # "command_failed"
    /\ proc = "exited" =>
         \/ tcpSrv \in {"bind_failed", "accept_failed"}
         \/ udpSrv \in {"bind_failed", "recv_failed"}

\* C9 (as stated): a stream session continues after a line is rejected:
\* handle_tcp_connection does not return because of a rejection.
C9_SessionContinues ==
    \A c \in Conns :
        (Returned(c) /\ disp[c].result \in Rejections) =>
            conn[c] # "command_failed"

\* C10 (as stated): for the three allow-listed privileged commands
\* process_command returns success whatever the external operation did.
C10_LocalAlwaysOk ==
    \A t \in Tasks :
        (Returned(t) /\ PrivilegedName(disp[t].data)
                     /\ Len(disp[t].data) <= 128) =>
            disp[t].result = "Ok"


\* handle_tcp_connection of connection c has returned
Ended(c) == conn[c] \in {"closed", "read_failed", "decode_failed", "command_failed"}

\* C11 (as stated): on every stream connection the commands are dispatched
\* in the order sent, each exactly once and none lost, and a dispatch uses
\* the bytes of its own connection only: the lines dispatched are a prefix
\* of the lines sent, the call in progress is on the last of them, and a
\* handler that has returned without a read error has dispatched every line
\* its client sent.
C11_OrderedNoLoss ==
    \A c \in Conns :
        /\ Len(sent[c]) <= Len(wire[c])
        /\ sent[c] = SubSeq(wire[c], 1, Len(sent[c]))
        /\ sent[c] # <<>> => disp[c].data = sent[c][Len(sent[c])]
        /\ conn[c] \in {"closed", "command_failed"} => sent[c] = wire[c]

\* C14: when the handling of one stream connection ends (end-of-stream or an
\* error), that step changes nothing else: the process keeps running, the
\* listener stays where it is, and every other connection keeps its state,
\* its lines and its dispatch.
C14_EndIsLocal ==
    [][ \A c \in Conns :
          (~Ended(c) /\ Ended(c)') =>
              /\ proc' = proc
              /\ tcpSrv' = tcpSrv
              /\ udpSrv' = udpSrv
              /\ \A b \in Conns \ {c} :
                     /\ conn'[b] = conn[b]
                     /\ sent'[b] = sent[b]
                     /\ wire'[b] = wire[b]
                     /\ disp'[b] = disp[b] ]_vars

\* connection 1 has ended on a rejected command while the process runs, the
\* listener accepts and connection 2 is in a dispatch
C14_Witness ==
    /\ conn[1] = "command_failed"
    /\ proc = "running"
    /\ tcpSrv = "accept"
    /\ conn[2] = "dispatch"

\* C16 (as stated): while a task is blocked in Command::status the listener
\* still accepts new stream connections, also when the blocked task is the
\* main task (the privileged command arrived as a datagram).
C16_AcceptWhileBlocked ==
    \A t \in Tasks :
        ( /\ disp[t].pc = "status"
          /\ proc = "running"
          /\ tcpSrv = "accept"
          /\ conn[1] = "none" ) => ENABLED TcpAccept(1)

(* C12: with a backend that sends the prompt at once and answers whatever it
   receives with a reply ending in `>`, a forwarded command opens one
   connection, writes the command once on it, never sleeps or retries, and
   returns Ok only after the prompt was read, the command written and the
   reply read through its delimiter. *)
C12_RoundTrip ==
    \A c \in Conns :
        disp[c].route = "forward" =>
            /\ disp[c].connects <= 1
            /\ Len(disp[c].writes) <= 1
            /\ disp[c].sleeps = <<>>
            /\ disp[c].attempt = 1
            /\ "fail" \notin { disp[c].outcomes[i] : i \in 1..Len(disp[c].outcomes) }
            /\ Returned(c) =>
                    /\ disp[c].result = "Ok"
                    /\ disp[c].connects = 1
                    /\ Len(disp[c].writes) = 1
                    /\ disp[c].outcomes = <<"ok">>
                    /\ disp[c].cx = [prompt |-> TRUE, wrote |-> TRUE, reply |-> TRUE]

C12_Witness ==
    /\ disp[1].route = "forward"
    /\ Returned(1)
    /\ disp[1].cx.reply
    /\ Len(disp[1].writes) = 1

(* C13: when the k-th call of forward_to_vlc is the first to return Ok (k in
   1..3), forward_to_vlc_with_retry has returned Ok: k attempts were made,
   each on its own connection, k-1 backoff sleeps were slept, the earlier
   attempts all failed, and nothing follows the successful exchange (the
   call is over, no sleep or connect is pending). *)
C13_FirstSuccessReturns ==
    LET o == disp[0].outcomes
        k == Len(o)
    IN  (\E i \in 1..k : o[i] = "ok") =>
            /\ k \in 1..max_retries
            /\ o[k] = "ok"
            /\ \A i \in 1..(k - 1) : o[i] = "fail"
            /\ Returned(0)
            /\ disp[0].result = "Ok"
            /\ disp[0].attempt = k
            /\ disp[0].connects = k
            /\ Len(disp[0].sleeps) = k - 1

C13_Witness ==
    /\ disp[0].outcomes = <<"fail", "fail", "ok">>
    /\ Returned(0)
    /\ Len(disp[0].sleeps) = 2

(* C15 as stated: a dispatch of a pass-through command that has returned
   has opened between 1 and 3 backend connections. *)
C15_AsStated ==
    (Returned(0) /\ disp[0].route = "forward") => disp[0].opened \in 1..max_retries

\* the attempt numbers of the writes of task t's dispatch
WriteAttempts(t) == { disp[t].writes[i].attempt : i \in 1..Len(disp[t].writes) }

(* C15, amended: every attempt calls connect once, for itself (the number of
   connect calls equals the attempt number once the attempt has connected);
   an attempt gets a new connection or none; no connection gets more than
   one write, and every write carries the command of this dispatch; a
   dispatch that has returned has called connect 1 to 3 times and opened at
   most that many connections if the command is pass-through, and has
   called connect 0 times otherwise. *)
C15_FreshConnectionPerAttempt ==
    LET d == disp[0]
    IN  /\ d.pc = "connect" => d.connects = d.attempt - 1
        /\ d.pc \in {"prompt", "write", "response", "sleep"} => d.connects = d.attempt
        /\ d.pc \in {"prompt", "write"} => ~d.cx.wrote
        /\ d.opened <= d.connects
        /\ Cardinality(WriteAttempts(0)) = Len(d.writes)
        /\ Len(d.writes) <= d.opened
        /\ \A i \in 1..Len(d.writes) : d.writes[i].bytes = ForwardBytes(d.data)
        /\ Returned(0) =>
              IF d.route = "forward"
                THEN d.connects \in 1..max_retries /\ d.connects = d.attempt
                ELSE d.connects = 0 /\ d.opened = 0

C15_Witness ==
    /\ Returned(0)
    /\ disp[0].route = "forward"
    /\ disp[0].opened = 3
    /\ Len(disp[0].writes) = 3

(* C17 as stated: within one dispatch the command is written to the backend
   on at most one attempt. *)
C17_AsStated == Len(disp[0].writes) <= 1

(* C17, amended: every attempt that gets as far as write_all writes the
   command, so an attempt that failed after its write is followed, if a
   retry is left, by an attempt that writes the same bytes again on its own
   connection; within a dispatch there is at most one write per attempt, in
   attempt order, and at most 3 writes in all. *)
C17_OneWritePerAttempt ==
    LET d == disp[0]
        w == d.writes
    IN  /\ Len(w) <= max_retries
        /\ \A i \in 1..Len(w) : w[i].attempt \in 1..d.attempt
        /\ \A i, j \in 1..Len(w) : i < j => w[i].attempt < w[j].attempt
        /\ \A i, j \in 1..Len(w) : w[i].bytes = w[j].bytes
        /\ d.pc = "response" => /\ w # <<>>
                                /\ w[Len(w)].attempt = d.attempt
                                /\ d.cx.wrote
        /\ (Returned(0) /\ d.route = "forward" /\ d.result = "Ok") =>
                /\ w # <<>>
                /\ w[Len(w)].attempt = d.attempt

\* the command was written on attempts 1 and 2: attempt 1 failed after its
\* write and attempt 2 is waiting for the reply
C17_Witness ==
    /\ disp[0].pc = "response"
    /\ disp[0].attempt = 2
    /\ Len(disp[0].writes) = 2
    /\ disp[0].writes[1].bytes = disp[0].writes[2].bytes

\* task 0 is inside forward_to_vlc_with_retry
InForward(t) == disp[t].pc \in {"connect", "prompt", "write", "response", "sleep"}

\* task 0 waits in one of the two read_until calls of forward_to_vlc
InRead(t) == disp[t].pc \in {"prompt", "response"}

(* C18: a call of forward_to_vlc_with_retry makes at most 3 attempts and
   sleeps at most twice; while the process lives it either returns or, from
   some point on, waits forever in a read_until of one attempt (the backend
   sends neither the delimiter nor end-of-stream, and the read does not
   fail); a new attempt starts only at connect, which is reached only after
   the previous attempt has returned, never while an attempt waits in a
   read. *)
C18_ReturnsOrStallsInRead ==
    /\ [](disp[0].attempt <= max_retries /\ Len(disp[0].sleeps) <= max_retries - 1
            /\ disp[0].connects <= max_retries)
    /\ [][(InRead(0) /\ InForward(0)') =>
              (disp[0].attempt' = disp[0].attempt
                /\ disp[0].connects' = disp[0].connects)]_vars
    /\ [](InForward(0) => <>(Returned(0) \/ proc = "exited" \/ [](InRead(0))))

\* the third attempt, after two sleeps, waits for the prompt
C18_Witness ==
    /\ disp[0].pc = "prompt"
    /\ disp[0].attempt = 3
    /\ Len(disp[0].sleeps) = 2
    /\ disp[0].connects = 3

(* C19: on both transports a command of more than 128 bytes is rejected
   with SizeExceeded whatever else is wrong with it: every unit of more
   than 128 bytes that process_command gets is rejected with SizeExceeded,
   and no stream line of more than 128 bytes ends its session with a
   decoding error instead. *)
C19_SizeCheckedFirst ==
    /\ \A t \in Tasks :
          (Called(t) /\ Len(disp[t].data) > MAX_COMMAND_SIZE) =>
              disp[t].result = "SizeExceeded"
    /\ \A c \in Conns :
          conn[c] = "decode_failed" => Len(NextLine(c)) <= MAX_COMMAND_SIZE

(* C20: the limit is on the raw bytes passed to process_command: a unit of
   exactly 128 raw bytes is not rejected with SizeExceeded, a unit of 129
   raw bytes is, whatever its trimmed length; the unit of the stream
   transport is the whole line with its terminator, so a line whose text
   has at most 128 bytes but whose raw length is above 128 is rejected. *)
C20_RawLengthLimit ==
    /\ \A t \in Tasks :
          Called(t) =>
              /\ (disp[t].result = "SizeExceeded") <=> (Len(disp[t].data) > MAX_COMMAND_SIZE)
              /\ Len(disp[t].data) = MAX_COMMAND_SIZE => disp[t].result # "SizeExceeded"
              /\ Len(disp[t].data) = MAX_COMMAND_SIZE + 1 =>
                      (Returned(t) /\ disp[t].result = "SizeExceeded")
    /\ \A c \in Conns :
          Called(c) =>
              /\ sent[c] # <<>>
              /\ disp[c].data = sent[c][Len(sent[c])]
              /\ disp[c].data = wire[c][Len(sent[c])]
              /\ disp[c].data[Len(disp[c].data)] = 10

\* a line of 128 bytes of text and its terminator was rejected, and a
\* datagram of exactly 128 bytes of text was forwarded
C20_Witness ==
    /\ Returned(1)
    /\ disp[1].data = Fill(MAX_COMMAND_SIZE) \o <<10>>
    /\ Len(trim(disp[1].data)) = MAX_COMMAND_SIZE
    /\ disp[1].result = "SizeExceeded"
    /\ disp[0].data = Fill(MAX_COMMAND_SIZE)
    /\ disp[0].route = "forward"

====
